---- MODULE Spec2Model ----
(***************************************************************************)
(* Model of src/app.py: the CO2 & ROI dashboard script and its helper      *)
(* compute_payback_year.                                                    *)
(*                                                                          *)
(* The script is a straight-line program re-run on every evaluation: it    *)
(* reads the widgets, derives annual_savings and payback_text, builds the  *)
(* waterfall values list in a loop, sums net_benefit and divides for       *)
(* roi_percent.  compute_payback_year is a pure function of a cash-flow    *)
(* list; it is applied here to bounded integer lists and to the per-year   *)
(* net schedule of an evaluation.                                          *)
(*                                                                          *)
(* Money is modelled in whole units (integers).  Quotients are kept exact, *)
(* as a numerator and a denominator.  Python's None is the kind "None"; a  *)
(* raised ZeroDivisionError is the kind "ZeroDivisionError".               *)
(***************************************************************************)
EXTENDS Integers, Sequences, FiniteSets, TLC

VARIABLES
    pc,                 \* position in the script / in compute_payback_year
    energy_savings,     \* app.py:47
    electricity_rate,   \* app.py:48
    roi_years,          \* app.py:55
    initial_investment, \* app.py:59
    software_fee,       \* app.py:61
    annual_savings,     \* app.py:64
    payback_text,       \* app.py:65
    values,             \* app.py:70 (1-indexed here: values[k] is Python values[k-1])
    i,                  \* loop variable of app.py:72
    net_benefit,        \* app.py:76
    roi_percent,        \* app.py:135
    policy,             \* which schedule compute_payback_year was applied to
    cashflows,          \* argument of compute_payback_year (1-indexed here)
    cumulative,         \* app.py:5
    prev,               \* app.py:7
    pb_i,               \* loop variable of app.py:6 (the Python index)
    result              \* what compute_payback_year returned or raised

vars == <<pc, energy_savings, electricity_rate, roi_years, initial_investment,
          software_fee, annual_savings, payback_text, values, i, net_benefit,
          roi_percent, policy, cashflows, cumulative, prev, pb_i, result>>

scriptVars == <<energy_savings, electricity_rate, roi_years, initial_investment,
                software_fee, annual_savings, payback_text, values, i,
                net_benefit, roi_percent>>

paybackVars == <<policy, cashflows, cumulative, prev, pb_i, result>>

(***************************************************************************)
(* Bounds of the model.                                                     *)
(***************************************************************************)
MaxEnergy == 2
MaxRate == 2
MaxInvest == 3
MaxFee == 3
MaxLen == 4
MaxAmt == 2

(***************************************************************************)
(* Values                                                                   *)
(***************************************************************************)
Unset == [kind |-> "unset", num |-> 0, den |-> 1]
None == [kind |-> "None", num |-> 0, den |-> 1]
ZeroDivisionError == [kind |-> "ZeroDivisionError", num |-> 0, den |-> 1]
Number(n, d) == [kind |-> "number", num |-> n, den |-> d]
NotAchievable == [kind |-> "Not achievable", num |-> 0, den |-> 1]
Yrs(hundredths) == [kind |-> "yrs", num |-> hundredths, den |-> 100]

RECURSIVE SumSeq(_)
SumSeq(s) == IF s = <<>> THEN 0 ELSE Head(s) + SumSeq(Tail(s))

RECURSIVE SeqsUpTo(_, _)
SeqsUpTo(S, n) ==
    IF n = 0 THEN {<<>>}
    ELSE LET shorter == SeqsUpTo(S, n - 1)
         IN shorter \cup {Append(s, x) : s \in {t \in shorter : Len(t) = n - 1}, x \in S}

(***************************************************************************)
(* The widgets.  roi_years is a selectbox over [3, 5]; the number inputs   *)
(* have no min_value, so a rate below zero can be entered.  The two named  *)
(* parameter sets are the worked scenarios of the specification            *)
(* (annual_savings 140,000 = energy_savings * electricity_rate).           *)
(***************************************************************************)
RoiYearOptions == {3, 5}

ScenarioA ==
    [energy_savings |-> 140000, electricity_rate |-> 1, roi_years |-> 5,
     initial_investment |-> 16000, software_fee |-> 72817]

ScenarioB ==
    [energy_savings |-> 140000, electricity_rate |-> 1, roi_years |-> 5,
     initial_investment |-> 16000, software_fee |-> 20000]

Inputs ==
    [energy_savings : 0..MaxEnergy, electricity_rate : -1..MaxRate,
     roi_years : RoiYearOptions, initial_investment : 0..MaxInvest,
     software_fee : 0..MaxFee]
    \cup {ScenarioA, ScenarioB}

CashflowInputs == SeqsUpTo(-MaxAmt..MaxAmt, MaxLen)

(***************************************************************************)
(* app.py:65  f"{initial_investment / annual_savings:.2f} yrs" if          *)
(* annual_savings > 0 else "Not achievable".  The :.2f conversion rounds   *)
(* the quotient to the nearest hundredth; on an exact tie the binary       *)
(* double may fall on either side, so both neighbours are possible.        *)
(***************************************************************************)
Format2f(n, d) ==
    LET q == (100 * n) \div d
        r == (100 * n) - q * d
    IN IF 2 * r < d THEN {q}
       ELSE IF 2 * r > d THEN {q + 1}
       ELSE {q, q + 1}

PaybackTextFeeNetted(investment, savings) ==
    IF savings > 0 /\ savings > software_fee
    THEN {Yrs(h) : h \in Format2f(investment, savings)}
    ELSE {NotAchievable}

PaybackTexts(investment, savings) ==
    IF savings > 0
    THEN {Yrs(h) : h \in Format2f(investment, savings)}
    ELSE {NotAchievable}

(***************************************************************************)
(* app.py:73  yearly_value = annual_savings - (software_fee if i >= 1      *)
(* else 0)                                                                  *)
(***************************************************************************)
YearlyValueFeeEveryYear(year, savings, fee) == savings - fee

YearlyValue(year, savings, fee) == savings - (IF year >= 1 THEN fee ELSE 0)

(***************************************************************************)
(* app.py:76  net_benefit = sum(values[2:])                                 *)
(***************************************************************************)
NetBenefitOf(vals) == SumSeq(SubSeq(vals, 3, Len(vals)))

(***************************************************************************)
(* app.py:135  roi_percent = (net_benefit / initial_investment) * 100      *)
(***************************************************************************)
RoiPercentOf(benefit, investment) ==
    IF investment = 0 THEN ZeroDivisionError
    ELSE Number(benefit * 100, investment)

(***************************************************************************)
(* compute_payback_year, app.py:4-11                                        *)
(***************************************************************************)
InitialCumulative == 0

Crossed(cum) == cum >= 0

PaybackValueOffByOne(idx, before, flow) ==
    IF flow = 0 THEN ZeroDivisionError
    ELSE Number(idx * flow + (-before), flow)

PaybackValue(idx, before, flow) ==
    IF flow = 0 THEN ZeroDivisionError
    ELSE Number((idx - 1) * flow + (-before), flow)

(***************************************************************************)
(* The per-year net cash flows of an evaluation, net = savings - fee -     *)
(* investment, the investment charged in year 0.  WaterfallNet nets the    *)
(* yearly entries the script built (fee from the second year on);          *)
(* FeeEachYearNet charges the fee in every year.                           *)
(***************************************************************************)
WaterfallNet ==
    [k \in 1..roi_years |-> values[2 + k] + (IF k = 1 THEN values[2] ELSE 0)]

FeeEachYearNet ==
    [k \in 1..roi_years |->
        annual_savings - software_fee - (IF k = 1 THEN initial_investment ELSE 0)]

ScheduleNet(p) == IF p = "FEE_FROM_YEAR_2" THEN WaterfallNet ELSE FeeEachYearNet

(***************************************************************************)
(* Initial state: nothing read, nothing computed.                           *)
(***************************************************************************)
Init ==
    /\ pc = "start"
    /\ energy_savings = 0
    /\ electricity_rate = 0
    /\ roi_years = 3
    /\ initial_investment = 0
    /\ software_fee = 0
    /\ annual_savings = 0
    /\ payback_text = Unset
    /\ values = <<>>
    /\ i = 0
    /\ net_benefit = 0
    /\ roi_percent = Unset
    /\ policy = "none"
    /\ cashflows = <<>>
    /\ cumulative = 0
    /\ prev = 0
    /\ pb_i = 0
    /\ result = Unset

\* app.py:47-61
ReadInputs ==
    /\ pc = "start"
    /\ \E p \in Inputs :
        /\ energy_savings' = p.energy_savings
        /\ electricity_rate' = p.electricity_rate
        /\ roi_years' = p.roi_years
        /\ initial_investment' = p.initial_investment
        /\ software_fee' = p.software_fee
    /\ pc' = "derive"
    /\ UNCHANGED <<annual_savings, payback_text, values, i, net_benefit, roi_percent>>
    /\ UNCHANGED paybackVars

\* app.py:64-65
Derive ==
    /\ pc = "derive"
    /\ annual_savings' = energy_savings * electricity_rate
    /\ payback_text' \in PaybackTexts(initial_investment, annual_savings')
    /\ pc' = "values"
    /\ UNCHANGED <<energy_savings, electricity_rate, roi_years, initial_investment,
                   software_fee, values, i, net_benefit, roi_percent>>
    /\ UNCHANGED paybackVars

\* app.py:70
InitValues ==
    /\ pc = "values"
    /\ values' = <<0, -initial_investment>>
    /\ i' = 0
    /\ pc' = "loop"
    /\ UNCHANGED <<energy_savings, electricity_rate, roi_years, initial_investment,
                   software_fee, annual_savings, payback_text, net_benefit, roi_percent>>
    /\ UNCHANGED paybackVars

\* app.py:72-74, one iteration
AppendYear ==
    /\ pc = "loop"
    /\ i < roi_years
    /\ values' = Append(values, YearlyValue(i, annual_savings, software_fee))
    /\ i' = i + 1
    /\ UNCHANGED <<pc, energy_savings, electricity_rate, roi_years, initial_investment,
                   software_fee, annual_savings, payback_text, net_benefit, roi_percent>>
    /\ UNCHANGED paybackVars

\* app.py:76-77
SumNetBenefit ==
    /\ pc = "loop"
    /\ i >= roi_years
    /\ net_benefit' = NetBenefitOf(values)
    /\ values' = Append(values, net_benefit')
    /\ pc' = "roi"
    /\ UNCHANGED <<energy_savings, electricity_rate, roi_years, initial_investment,
                   software_fee, annual_savings, payback_text, i, roi_percent>>
    /\ UNCHANGED paybackVars

\* app.py:135; a ZeroDivisionError ends the script run
ComputeRoi ==
    /\ pc = "roi"
    /\ LET r == RoiPercentOf(net_benefit, initial_investment)
       IN IF r.kind = "ZeroDivisionError"
          THEN /\ pc' = "raised"
               /\ UNCHANGED roi_percent
          ELSE /\ pc' = "done"
               /\ roi_percent' = r
    /\ UNCHANGED <<energy_savings, electricity_rate, roi_years, initial_investment,
                   software_fee, annual_savings, payback_text, values, i, net_benefit>>
    /\ UNCHANGED paybackVars

\* compute_payback_year(cashflows) entered with a bounded list; app.py:4-5
CallOnCashflows ==
    /\ pc = "start"
    /\ \E cf \in CashflowInputs : cashflows' = cf
    /\ policy' = "list"
    /\ cumulative' = InitialCumulative
    /\ pb_i' = 1
    /\ pc' = "pb_loop"
    /\ UNCHANGED <<prev, result>>
    /\ UNCHANGED scriptVars

\* compute_payback_year entered with the net schedule of the evaluation; app.py:4-5
CallOnSchedule ==
    /\ pc \in {"done", "raised"}
    /\ \E p \in {"FEE_FROM_YEAR_2", "FEE_EACH_YEAR"} :
        /\ policy' = p
        /\ cashflows' = ScheduleNet(p)
    /\ cumulative' = InitialCumulative
    /\ pb_i' = 1
    /\ pc' = "pb_loop"
    /\ UNCHANGED <<prev, result>>
    /\ UNCHANGED scriptVars

\* app.py:6-10, one iteration of for i in range(1, len(cashflows))
PaybackStep ==
    /\ pc = "pb_loop"
    /\ pb_i < Len(cashflows)
    /\ prev' = cumulative
    /\ cumulative' = cumulative + cashflows[pb_i + 1]
    /\ IF Crossed(cumulative')
       THEN LET r == PaybackValue(pb_i, prev', cashflows[pb_i + 1])
            IN /\ result' = r
               /\ pc' = IF r.kind = "ZeroDivisionError" THEN "pb_raised" ELSE "pb_done"
               /\ UNCHANGED pb_i
       ELSE /\ pb_i' = pb_i + 1
            /\ UNCHANGED <<pc, result>>
    /\ UNCHANGED <<policy, cashflows>>
    /\ UNCHANGED scriptVars

\* app.py:11
PaybackReturnNone ==
    /\ pc = "pb_loop"
    /\ pb_i >= Len(cashflows)
    /\ result' = None
    /\ pc' = "pb_done"
    /\ UNCHANGED <<policy, cashflows, cumulative, prev, pb_i>>
    /\ UNCHANGED scriptVars

Next ==
    \/ ReadInputs
    \/ Derive
    \/ InitValues
    \/ AppendYear
    \/ SumNetBenefit
    \/ ComputeRoi
    \/ CallOnCashflows
    \/ CallOnSchedule
    \/ PaybackStep
    \/ PaybackReturnNone

Spec == Init /\ [][Next]_vars

(***************************************************************************)
(* Properties                                                               *)
(***************************************************************************)
SchedulePolicies == {"FEE_FROM_YEAR_2", "FEE_EACH_YEAR"}

\* compute_payback_year has returned or raised
PaybackEnded == pc \in {"pb_done", "pb_raised"}

\* the values list is complete (net_benefit appended) and the script has not raised before
ValuesBuilt == pc \in {"roi", "done", "raised"}

\* line 135 has been evaluated
RoiEvaluated == pc \in {"done", "raised"}

\* cumulative_net[k] of a sequence, k a Python index: net[0] + ... + net[k]
CumulativeNet(cf, k) == SumSeq(SubSeq(cf, 1, k + 1))

\* the Python indices i in 1..n-1 with cumulative_net[i] >= 0
CrossingIndices(cf) == {k \in 1..(Len(cf) - 1) : CumulativeNet(cf, k) >= 0}

FirstCrossing(cf) == CHOOSE k \in CrossingIndices(cf) : \A m \in CrossingIndices(cf) : k <= m

IsScenario(s) ==
    /\ energy_savings = s.energy_savings
    /\ electricity_rate = s.electricity_rate
    /\ roi_years = s.roi_years
    /\ initial_investment = s.initial_investment
    /\ software_fee = s.software_fee

(* C1: for every cash-flow sequence, with cumulative_net[0] = net[0] and    *)
(* cumulative_net[i] = cumulative_net[i-1] + net[i], compute_payback_year   *)
(* returns (i - 1) + (-cumulative_net[i-1] / net[i]) at the first index     *)
(* i >= 1 where cumulative_net[i] >= 0, and None when there is none.        *)
C1_ExactRootPayback ==
    PaybackEnded =>
        IF CrossingIndices(cashflows) = {}
        THEN result = None
        ELSE LET k == FirstCrossing(cashflows)
                 net == cashflows[k + 1]
                 before == CumulativeNet(cashflows, k - 1)
             IN net # 0 =>
                    /\ result.kind = "number"
                    /\ result.num * net = ((k - 1) * net + (-before)) * result.den

(* C2, as claimed: the closed-form payback is not achievable whenever       *)
(* annual_savings <= 0 and whenever annual_savings <= the recurring fee;    *)
(* otherwise it is initial_investment / annual_savings.                     *)
C2_ClosedFormNetsFee ==
    pc \notin {"start", "derive"} /\ policy # "list" =>
        IF annual_savings <= 0 \/ annual_savings <= software_fee
        THEN payback_text = NotAchievable
        ELSE /\ payback_text.kind = "yrs"
             /\ 2 * (payback_text.num * annual_savings - 100 * initial_investment) <= annual_savings
             /\ 2 * (100 * initial_investment - payback_text.num * annual_savings) <= annual_savings

(* C2, amended: the closed-form payback is not achievable exactly when      *)
(* annual_savings <= 0; for annual_savings > 0 it is initial_investment /   *)
(* annual_savings to two decimals, whatever the recurring fee.              *)
C2_ClosedFormIgnoresFee ==
    pc \notin {"start", "derive"} /\ policy # "list" =>
        IF annual_savings <= 0
        THEN payback_text = NotAchievable
        ELSE /\ payback_text.kind = "yrs"
             /\ 2 * (payback_text.num * annual_savings - 100 * initial_investment) <= annual_savings
             /\ 2 * (100 * initial_investment - payback_text.num * annual_savings) <= annual_savings

C2_Witness ==
    /\ pc = "done"
    /\ annual_savings > 0
    /\ annual_savings <= software_fee
    /\ payback_text.kind = "yrs"
    /\ payback_text.num > 0

(* C3: roi_percent = net_benefit / initial_investment * 100 when            *)
(* initial_investment > 0; when initial_investment = 0 the evaluation       *)
(* completes and roi_percent is None, no division error is raised.          *)
C3_RoiNoneOnZeroInvestment ==
    RoiEvaluated =>
        IF initial_investment > 0
        THEN /\ roi_percent.kind = "number"
             /\ roi_percent.num * initial_investment = net_benefit * 100 * roi_percent.den
        ELSE initial_investment = 0 => (pc = "done" /\ roi_percent = None)

(* C4: net_benefit is the sum of the per-year net cash flows, each year's   *)
(* net = savings - recurring_fee - investment, so the year-0 investment is  *)
(* subtracted.                                                              *)
C4_NetBenefitIsSumOfNet ==
    ValuesBuilt => net_benefit = SumSeq(WaterfallNet)

(* C5: when annual_savings = 0, both the closed-form payback and            *)
(* compute_payback_year on the resulting schedule report not achievable,    *)
(* without raising.                                                         *)
C5_ZeroSavingsNotAchievable ==
    (/\ PaybackEnded
     /\ policy \in SchedulePolicies
     /\ annual_savings = 0
     /\ initial_investment >= 0
     /\ software_fee >= 0) =>
        /\ payback_text = NotAchievable
        /\ result = None

(* C6, as claimed: in Scenario A with the fee charged every year, the       *)
(* year-0 net is 51,183, the cumulative net after year 4 is -21,085, and    *)
(* the exact-root payback is not achievable.                                *)
C6_ScenarioANotAchievable ==
    IsScenario(ScenarioA) /\ policy = "FEE_EACH_YEAR" =>
        /\ cashflows[1] = 51183
        /\ CumulativeNet(cashflows, 4) = -21085
        /\ PaybackEnded => result = None

(* C6, amended: in Scenario A with the fee charged every year, the year-0   *)
(* net is 51,183, the cumulative net after year 4 is 319,915, and           *)
(* compute_payback_year returns 0.0: the payback is achievable.             *)
C6_ScenarioAAchievable ==
    IsScenario(ScenarioA) /\ policy = "FEE_EACH_YEAR" =>
        /\ Len(cashflows) = 5
        /\ cashflows[1] = 51183
        /\ CumulativeNet(cashflows, 4) = 319915
        /\ PaybackEnded =>
            /\ pc = "pb_done"
            /\ result.kind = "number"
            /\ result.num = 0

C6_Witness ==
    /\ IsScenario(ScenarioA)
    /\ policy = "FEE_EACH_YEAR"
    /\ pc = "pb_done"
    /\ annual_savings = 140000
    /\ result.kind = "number"

(* C7: whenever the year-0 net cash flow of the schedule is >= 0, the       *)
(* exact-root payback is exactly 0.0 years.                                 *)
C7_ImmediateRecovery ==
    (/\ PaybackEnded
     /\ policy \in SchedulePolicies
     /\ cashflows[1] >= 0) =>
        /\ result.kind = "number"
        /\ result.num = 0

(* C8: when the payback p is found at crossing index i, the cumulative net  *)
(* cash flow interpolated at p is zero:                                     *)
(* cumulative_net[i-1] + (p - (i - 1)) * net[i] = 0.                       *)
C8_InterpolatedRootIsZero ==
    pc = "pb_done" /\ result.kind = "number" =>
        CumulativeNet(cashflows, pb_i - 1) * result.den
            + (result.num - (pb_i - 1) * result.den) * cashflows[pb_i + 1] = 0

(* C9: in the waterfall values the investment appears once, before the      *)
(* yearly entries; yearly entry 0 is annual_savings with no fee; every      *)
(* yearly entry i >= 1 is annual_savings - software_fee; there are exactly  *)
(* roi_years yearly entries (followed by the net-benefit total).            *)
C9_WaterfallSchedule ==
    ValuesBuilt =>
        /\ Len(values) = 2 + roi_years + 1
        /\ values[1] = 0
        /\ values[2] = -initial_investment
        /\ values[3] = annual_savings
        /\ \A k \in 1..(roi_years - 1) : values[3 + k] = annual_savings - software_fee
        /\ values[Len(values)] = net_benefit

C9_Witness ==
    /\ pc = "done"
    /\ roi_years = 5
    /\ software_fee > 0
    /\ initial_investment > 0
    /\ annual_savings > software_fee
    /\ Len(values) = 8

(* C10: when compute_payback_year returns a number p at crossing index i    *)
(* for a sequence of length n, i - 1 <= p <= i, hence 0 <= p <= n - 1.      *)
C10_PaybackWithinCrossingYear ==
    pc = "pb_done" /\ result.kind = "number" =>
        /\ result.den > 0
        /\ (pb_i - 1) * result.den <= result.num
        /\ result.num <= pb_i * result.den
        /\ 0 <= result.num
        /\ result.num <= (Len(cashflows) - 1) * result.den

C10_Witness ==
    /\ pc = "pb_done"
    /\ result.kind = "number"
    /\ pb_i >= 2
    /\ (pb_i - 1) * result.den < result.num
    /\ result.num < pb_i * result.den

====
